---------------------------- MODULE Spec2Model ----------------------------
(***************************************************************************)
(* A model of gogitsu/config: the Configurator's binding engine.           *)
(*                                                                         *)
(*   readStructMetadata  the schema walker                                 *)
(*   readEnvVars         the resolution pass                               *)
(*   parseValue          the coercion of one raw string into one field     *)
(*   LoadFromFile        Parser first, resolution pass second              *)
(*                                                                         *)
(* Go strings are sequences of one-character strings, so that splitting,   *)
(* trimming, prefixing and number parsing are computed, not assumed.       *)
(* A *string is a sequence of length 0 (nil) or 1.                         *)
(***************************************************************************)
EXTENDS Integers, Sequences, FiniteSets, TLC

VARIABLES
    environ,    \* the process environment: [set of names -> raw string]
    envPrefix,  \* Configurator.envPrefix
    schema,     \* the struct type of the caller's configuration object
    cfg,        \* the value of the caller's configuration object
    files,      \* the file system: path -> what the file at that path holds
    paths,      \* Configurator.paths
    last,       \* the outcome of the last operation of the Configurator
    probe       \* the input of a direct call of the walker or of parseValue

vars == <<environ, envPrefix, schema, cfg, files, paths, last, probe>>

----------------------------------------------------------------------------
(* Strings                                                                 *)

Digits == <<"0", "1", "2", "3", "4", "5", "6", "7", "8", "9">>

IsDigit(c) == \E i \in 1..Len(Digits) : Digits[i] = c

DigitVal(c) == (CHOOSE i \in 1..Len(Digits) : Digits[i] = c) - 1

\* unicode.IsSpace on the characters of the model's alphabet
IsSpace(c) == c = " "

RECURSIVE TrimLeft(_)
TrimLeft(s) ==
    IF s # <<>> /\ IsSpace(Head(s)) THEN TrimLeft(Tail(s)) ELSE s

RECURSIVE TrimRight(_)
TrimRight(s) ==
    IF s # <<>> /\ IsSpace(s[Len(s)])
    THEN TrimRight(SubSeq(s, 1, Len(s) - 1))
    ELSE s

\* strings.TrimSpace
TrimSpace(s) == TrimRight(TrimLeft(s))

\* strings.HasSuffix
HasSuffix(s, suffix) ==
    /\ Len(s) >= Len(suffix)
    /\ SubSeq(s, Len(s) - Len(suffix) + 1, Len(s)) = suffix

\* strings.Index: the first position where sep starts in s, 0 when there is none
Index(s, sep) ==
    LET hits == {i \in 1..(Len(s) - Len(sep) + 1) :
                    SubSeq(s, i, i + Len(sep) - 1) = sep}
    IN  IF hits = {} THEN 0 ELSE CHOOSE i \in hits : \A j \in hits : i <= j

\* strings.Split(s, sep): an empty separator explodes s into its characters
RECURSIVE Split(_, _)
Split(s, sep) ==
    IF sep = <<>>
    THEN [i \in 1..Len(s) |-> <<s[i]>>]
    ELSE LET i == Index(s, sep)
         IN  IF i = 0
             THEN <<s>>
             ELSE <<SubSeq(s, 1, i - 1)>>
                      \o Split(SubSeq(s, i + Len(sep), Len(s)), sep)

\* strings.SplitN(s, ":", 2)
SplitN2(s, sep) ==
    LET i == Index(s, sep)
    IN  IF i = 0
        THEN <<s>>
        ELSE <<SubSeq(s, 1, i - 1), SubSeq(s, i + Len(sep), Len(s))>>

----------------------------------------------------------------------------
(* Errors: [kind, arg], arg the field, type or item the message names      *)

\* the one element of a singleton set: The({e(x) : x \in {v}}) is e(v)
\* with v computed once
The(S) == CHOOSE x \in S : TRUE

NoErr == [kind |-> "nil", arg |-> <<>>]

Err(kind, arg) == [kind |-> kind, arg |-> arg]

----------------------------------------------------------------------------
(* strconv                                                                 *)

Pow2(n) == 2 ^ n

\* the value of a digit string in the given base, -1 on a digit out of the
\* base (a syntax error), -2 once the value passes maxVal (a range error)
RECURSIVE DigitsValue(_, _, _, _)
DigitsValue(s, base, acc, maxVal) ==
    IF s = <<>> THEN acc
    ELSE IF ~IsDigit(Head(s)) \/ DigitVal(Head(s)) >= base THEN -1
    ELSE LET n == acc * base + DigitVal(Head(s))
         IN  IF n > maxVal
             THEN IF \A i \in 1..Len(s) : IsDigit(s[i]) /\ DigitVal(s[i]) < base
                  THEN -2 ELSE -1
             ELSE DigitsValue(Tail(s), base, n, maxVal)

\* strconv.ParseUint(s, 0, bitSize) on the model's alphabet, which holds no
\* base letter (0x, 0b, 0o) and no underscore: a leading 0 selects base 8
ParseUintMax(s, maxVal) ==
    IF s = <<>> THEN [err |-> Err("syntax", s), n |-> 0]
    ELSE LET octal == Len(s) > 1 /\ Head(s) = "0"
             v == IF octal THEN DigitsValue(Tail(s), 8, 0, maxVal)
                           ELSE DigitsValue(s, 10, 0, maxVal)
         IN  CASE v = -1 -> [err |-> Err("syntax", s), n |-> 0]
               [] v = -2 -> [err |-> Err("range", s), n |-> maxVal]
               [] OTHER  -> [err |-> NoErr, n |-> v]

ParseUint(s, bits) == ParseUintMax(s, Pow2(bits) - 1)

\* strconv.ParseInt(s, 0, bitSize)
ParseInt(s, bits) ==
    IF s = <<>> THEN [err |-> Err("syntax", s), n |-> 0]
    ELSE LET neg  == Head(s) = "-"
             body == IF Head(s) \in {"+", "-"} THEN Tail(s) ELSE s
             half == Pow2(bits) \div 2
             u    == ParseUintMax(body, Pow2(bits) - 1)
         IN  IF u.err.kind = "syntax" THEN [err |-> Err("syntax", s), n |-> 0]
             ELSE IF u.err.kind = "range" THEN [err |-> Err("range", s), n |-> 0]
             ELSE IF ~neg /\ u.n >= half THEN [err |-> Err("range", s), n |-> half - 1]
             ELSE IF neg /\ u.n > half THEN [err |-> Err("range", s), n |-> -half]
             ELSE [err |-> NoErr, n |-> IF neg THEN -u.n ELSE u.n]

TrueLiterals ==
    {<<"1">>, <<"t">>, <<"T">>, <<"T", "R", "U", "E">>,
     <<"t", "r", "u", "e">>, <<"T", "r", "u", "e">>}

FalseLiterals ==
    {<<"0">>, <<"f">>, <<"F">>, <<"F", "A", "L", "S", "E">>,
     <<"f", "a", "l", "s", "e">>, <<"F", "a", "l", "s", "e">>}

\* strconv.ParseBool
ParseBool(s) ==
    CASE s \in TrueLiterals  -> [err |-> NoErr, b |-> TRUE]
      [] s \in FalseLiterals -> [err |-> NoErr, b |-> FALSE]
      [] OTHER               -> [err |-> Err("syntax", s), b |-> FALSE]

----------------------------------------------------------------------------
(* reflect.Type: [kind, pkg, name, ...]. Kinds modelled: string, bool,     *)
(* int8, uint8, slice, map, struct, ptr. time.Time is a struct of package  *)
(* time; MyField is the string type with the SetValue method on its        *)
(* pointer that the Setter documentation gives.                            *)

TString == [kind |-> "string", pkg |-> "", name |-> "string", setter |-> FALSE]
TBool   == [kind |-> "bool", pkg |-> "", name |-> "bool", setter |-> FALSE]
TInt8   == [kind |-> "int8", pkg |-> "", name |-> "int8", setter |-> FALSE]
TUint8  == [kind |-> "uint8", pkg |-> "", name |-> "uint8", setter |-> FALSE]
TTime   == [kind |-> "struct", pkg |-> "time", name |-> "Time", setter |-> FALSE]
TMyField == [kind |-> "string", pkg |-> "main", name |-> "MyField", setter |-> TRUE]

TSlice(e) ==
    [kind |-> "slice", pkg |-> "", name |-> "", setter |-> FALSE, elem |-> e]

TMap(k, e) ==
    [kind |-> "map", pkg |-> "", name |-> "", setter |-> FALSE,
     key |-> k, elem |-> e]

TPtr(e) ==
    [kind |-> "ptr", pkg |-> "", name |-> "", setter |-> FALSE, elem |-> e]

\* a struct type: fields is a sequence of [name, exported, type, tag]
TStruct(fields) ==
    [kind |-> "struct", pkg |-> "main", name |-> "", setter |-> FALSE,
     fields |-> fields]

IsTimeType(T) == T.pkg = "time" /\ T.name = "Time"

Bits(T) == 8

IntKinds == {"int8"}

UintKinds == {"uint8"}

----------------------------------------------------------------------------
(* Values. A slice is [isNil, elems], a map [isNil, m] with m a function   *)
(* from keys to values, a time.Time its fields [wall, ext, loc] with ext   *)
(* counted in years since year 1, a struct the sequence of its fields'     *)
(* values, a pointer [isNil].                                              *)

NilSlice == [isNil |-> TRUE, elems |-> <<>>]

MakeSlice(elems) == [isNil |-> FALSE, elems |-> elems]

NilMap == [isNil |-> TRUE, m |-> <<>>]

MakeMap(m) == [isNil |-> FALSE, m |-> m]

NilPtr == [isNil |-> TRUE]

ZeroTime == [wall |-> 0, ext |-> 0, loc |-> "nil"]

\* the zero value of a type (reflect.Zero, reflect.New(T).Elem())
RECURSIVE Zero(_)
Zero(T) ==
    CASE T.kind = "string" -> <<>>
      [] T.kind = "bool"   -> FALSE
      [] T.kind \in IntKinds \cup UintKinds -> 0
      [] T.kind = "slice"  -> NilSlice
      [] T.kind = "map"    -> NilMap
      [] T.kind = "ptr"    -> NilPtr
      [] T.kind = "struct" /\ IsTimeType(T) -> ZeroTime
      [] T.kind = "struct" /\ ~IsTimeType(T) ->
            [i \in 1..Len(T.fields) |-> Zero(T.fields[i].type)]

\* isZero is a backport of reflect.Value.IsZero()
RECURSIVE isZero(_, _)
isZero(T, v) ==
    CASE T.kind = "bool"   -> ~v
      [] T.kind \in IntKinds  -> v = 0
      [] T.kind \in UintKinds -> v = 0
      [] T.kind \in {"map", "ptr", "slice"} -> v.isNil
      [] T.kind = "string" -> Len(v) = 0
      [] T.kind = "struct" /\ IsTimeType(T) ->
            v.wall = 0 /\ v.ext = 0 /\ v.loc = "nil"
      [] T.kind = "struct" /\ ~IsTimeType(T) ->
            \A i \in 1..Len(T.fields) : isZero(T.fields[i].type, v[i])

----------------------------------------------------------------------------
(* time.Parse, the library call of parseValue. Two layouts are modelled:   *)
(* "2006", a four-digit year, and time.RFC3339, which no string shorter    *)
(* than twenty characters satisfies.                                       *)

LayoutYear == <<"2", "0", "0", "6">>

RFC3339 ==
    <<"2", "0", "0", "6", "-", "0", "1", "-", "0", "2", "T", "1", "5", ":",
      "0", "4", ":", "0", "5", "Z", "0", "7", ":", "0", "0">>

TimeParse(l, value) ==
    IF l = LayoutYear /\ Len(value) = 4 /\ \A i \in 1..4 : IsDigit(value[i])
    THEN [err |-> NoErr,
          t |-> [wall |-> 0,
                 ext |-> DigitsValue(value, 10, 0, 9999) - 1,
                 loc |-> "nil"]]
    ELSE [err |-> Err("time", value), t |-> ZeroTime]

\* the SetValue of the Setter documentation:
\*   if s == "" { return error };  *f = MyField("my field is: " + s)
MyFieldPrefix ==
    <<"m", "y", " ", "f", "i", "e", "l", "d", " ", "i", "s", ":", " ">>

\* SetValue, were the raw value added to what the field holds
SetValueAppending(old, s) ==
    IF s = <<>>
    THEN [err |-> Err("setter", s), val |-> old]
    ELSE [err |-> NoErr, val |-> old \o s]

SetValue(old, s) ==
    IF s = <<>>
    THEN [err |-> Err("setter", s), val |-> old]
    ELSE [err |-> NoErr, val |-> MyFieldPrefix \o s]

----------------------------------------------------------------------------
(* parseValue, parseSlice, parseMap. Each returns [err, val]: val is the   *)
(* field's value after the call, the old value when nothing was set.       *)

\* []byte(value): a byte is the character it encodes
Bytes(value) == MakeSlice(value)

\* the struct case of parseValue: only time.Time is parsed, any other
\* struct falls out of the switch and parseValue returns nil
parseStruct(T, old, value, layout) ==
    IF IsTimeType(T)
    THEN LET l == IF layout # <<>> THEN layout[1] ELSE RFC3339
             r == TimeParse(l, value)
         IN  IF r.err # NoErr
             THEN [err |-> r.err, val |-> old]
             ELSE [err |-> NoErr, val |-> r.t]
    ELSE [err |-> NoErr, val |-> old]

RECURSIVE parseValue(_, _, _, _, _)
RECURSIVE parseSliceElems(_, _, _, _, _)
RECURSIVE parseMapPairs(_, _, _, _, _)

\* the loop of parseSlice over the tokens: [err, elems]
parseSliceElems(E, values, sep, layout, acc) ==
    IF values = <<>> THEN [err |-> NoErr, elems |-> acc]
    ELSE LET r == parseValue(E, Zero(E), Head(values), sep, layout)
         IN  IF r.err # NoErr
             THEN [err |-> r.err, elems |-> <<>>]
             ELSE parseSliceElems(E, Tail(values), sep, layout,
                                  Append(acc, r.val))

\* parseSlice, were the raw value split without the test for a blank one
parseSliceNoBlankTest(T, value, sep, layout) ==
    IF T.elem.kind = "uint8"
    THEN [err |-> NoErr, val |-> Bytes(value)]
    ELSE LET r == parseSliceElems(T.elem, Split(value, sep), sep, layout, <<>>)
         IN  IF r.err # NoErr
             THEN [err |-> r.err, val |-> NilSlice]
             ELSE [err |-> NoErr, val |-> MakeSlice(r.elems)]

\* parseSlice parses value into a slice of given type
parseSlice(T, value, sep, layout) ==
    IF T.elem.kind = "uint8"
    THEN [err |-> NoErr, val |-> Bytes(value)]
    ELSE IF Len(TrimSpace(value)) # 0
    THEN LET r == parseSliceElems(T.elem, Split(value, sep), sep, layout, <<>>)
         IN  IF r.err # NoErr
             THEN [err |-> r.err, val |-> NilSlice]
             ELSE [err |-> NoErr, val |-> MakeSlice(r.elems)]
    ELSE [err |-> NoErr, val |-> MakeSlice(<<>>)]

\* SetMapIndex, were a key already in the map left with its value
SetMapIndexKeepFirst(m, k, v) == m @@ (k :> v)

\* mapValue.SetMapIndex(k, v)
SetMapIndex(m, k, v) == (k :> v) @@ m

\* the loop of parseMap over the pairs: [err, m]
parseMapPairs(T, pairs, sep, layout, acc) ==
    IF pairs = <<>> THEN [err |-> NoErr, m |-> acc]
    ELSE LET kvPair == SplitN2(Head(pairs), <<":">>)
         IN  IF Len(kvPair) # 2
             THEN [err |-> Err("invalid map item", Head(pairs)), m |-> <<>>]
             ELSE LET k == parseValue(T.key, Zero(T.key), kvPair[1], sep, layout)
                  IN  IF k.err # NoErr THEN [err |-> k.err, m |-> <<>>]
                      ELSE LET v == parseValue(T.elem, Zero(T.elem),
                                               kvPair[2], sep, layout)
                           IN  IF v.err # NoErr
                               THEN [err |-> v.err, m |-> <<>>]
                               ELSE parseMapPairs(T, Tail(pairs), sep, layout,
                                        SetMapIndex(acc, k.val, v.val))

\* parseMap parses value into a map of given type
parseMap(T, value, sep, layout) ==
    IF Len(TrimSpace(value)) # 0
    THEN LET r == parseMapPairs(T, Split(value, sep), sep, layout, <<>>)
         IN  IF r.err # NoErr
             THEN [err |-> r.err, val |-> NilMap]
             ELSE [err |-> NoErr, val |-> MakeMap(r.m)]
    ELSE [err |-> NoErr, val |-> MakeMap(<<>>)]

\* the error of the default case: "unsupported type <pkg>.<name>"
UnsupportedType(T) == Err("unsupported type", <<T.pkg, T.name>>)

\* parseValue parses value into the corresponding field: T the field's
\* type, old its value, value the raw string
parseValue(T, old, value, sep, layout) ==
    IF T.setter THEN SetValue(old, value)
    ELSE CASE T.kind = "string" -> [err |-> NoErr, val |-> value]
           [] T.kind = "bool" ->
                LET r == ParseBool(value)
                IN  IF r.err # NoErr THEN [err |-> r.err, val |-> old]
                    ELSE [err |-> NoErr, val |-> r.b]
           [] T.kind \in IntKinds ->
                LET r == ParseInt(value, Bits(T))
                IN  IF r.err # NoErr THEN [err |-> r.err, val |-> old]
                    ELSE [err |-> NoErr, val |-> r.n]
           [] T.kind \in UintKinds ->
                LET r == ParseUint(value, Bits(T))
                IN  IF r.err # NoErr THEN [err |-> r.err, val |-> old]
                    ELSE [err |-> NoErr, val |-> r.n]
           [] T.kind = "slice" ->
                LET r == parseSlice(T, value, sep, layout)
                IN  IF r.err # NoErr THEN [err |-> r.err, val |-> old]
                    ELSE [err |-> NoErr, val |-> r.val]
           [] T.kind = "map" ->
                LET r == parseMap(T, value, sep, layout)
                IN  IF r.err # NoErr THEN [err |-> r.err, val |-> old]
                    ELSE [err |-> NoErr, val |-> r.val]
           [] T.kind = "struct" -> parseStruct(T, old, value, layout)
           [] OTHER -> [err |-> UnsupportedType(T), val |-> old]

----------------------------------------------------------------------------
(* reflect.Value as the walker sees it: what it is (kind, type), where it  *)
(* lives in the configuration object (path, the field indexes from the     *)
(* root), and its flags: addressable, and ro (reached through an           *)
(* unexported field).                                                      *)

\* an interface{} holding a non-nil pointer to x
PtrTo(x) == [kind |-> "ptr", isNil |-> FALSE, elem |-> x]

\* an interface{} holding a nil pointer
NilPtrTo == [kind |-> "ptr", isNil |-> TRUE]

\* the struct of type T that lives at path in the configuration object
StructAt(T, path) == [kind |-> "struct", type |-> T, path |-> path]

\* an interface{} holding a value that is neither pointer nor struct
Plain(kind) == [kind |-> kind]

\* reflect.ValueOf
ValueOf(x) ==
    [kind |-> x.kind, obj |-> x, addressable |-> FALSE, ro |-> FALSE]

\* Value.Elem of a pointer: the zero Value (Kind Invalid) for a nil pointer
Elem(v) ==
    IF v.obj.isNil
    THEN [kind |-> "invalid", obj |-> Plain("invalid"),
          addressable |-> FALSE, ro |-> FALSE]
    ELSE [kind |-> v.obj.elem.kind, obj |-> v.obj.elem,
          addressable |-> TRUE, ro |-> v.ro]

NumField(s) == Len(s.obj.type.fields)

\* Value.Field(idx) of a struct Value
Field(s, idx) ==
    LET f == s.obj.type.fields[idx]
    IN  [kind |-> f.type.kind,
         obj |-> [kind |-> f.type.kind, type |-> f.type,
                  path |-> Append(s.obj.path, idx)],
         addressable |-> s.addressable,
         ro |-> s.ro \/ ~f.exported]

\* Value.CanSet
CanSet(v) == v.addressable /\ ~v.ro

\* Value.Addr panics on a Value that is not addressable
AddrPanics(v) == ~v.addressable

\* Value.Interface panics on a Value reached through an unexported field
InterfacePanics(v) == v.ro

----------------------------------------------------------------------------
(* Struct tags                                                             *)

DefaultSeparator == <<",">>

\* StructTag.Lookup(key): a sequence of length 0 (absent) or 1
Lookup(tag, key) == IF key \in DOMAIN tag THEN <<tag[key]>> ELSE <<>>

\* StructTag.Get(key)
Get(tag, key) == IF key \in DOMAIN tag THEN tag[key] ELSE <<>>

\* the candidate names of a field: the env tag split on the default separator
envList(tag) ==
    IF Lookup(tag, "env") # <<>> /\ Len(tag["env"]) # 0
    THEN Split(tag["env"], DefaultSeparator)
    ELSE <<>>

\* the metadata the walker appends for field idx of the struct Value s
Metadata(s, idx, layout) ==
    LET fType == s.obj.type.fields[idx]
        tag   == fType.tag
    IN  [env         |-> envList(tag),
         fieldName   |-> fType.name,
         fieldValue  |-> Field(s, idx).obj,
         defValue    |-> Lookup(tag, "env-default"),
         layout      |-> layout,
         separator   |-> IF Lookup(tag, "env-separator") # <<>>
                         THEN tag["env-separator"]
                         ELSE DefaultSeparator,
         description |-> Get(tag, "env-description"),
         required    |-> Lookup(tag, "env-required") # <<>>]

----------------------------------------------------------------------------
(* readStructMetadata. The result is [panic, err, metas].                  *)

\* readFields, were a nested struct walked where it is declared, before the
\* fields declared after it
RECURSIVE readFieldsDepthFirst(_, _, _, _)
readFieldsDepthFirst(s, idx, cfgStack, metas) ==
    IF idx > NumField(s)
    THEN [panic |-> FALSE, stack |-> cfgStack, metas |-> metas]
    ELSE IF Field(s, idx).kind = "struct"
            /\ ~IsTimeType(s.obj.type.fields[idx].type)
    THEN IF AddrPanics(Field(s, idx)) \/ InterfacePanics(Field(s, idx))
         THEN [panic |-> TRUE, stack |-> cfgStack, metas |-> metas]
         ELSE The({IF r.panic THEN r
                   ELSE readFieldsDepthFirst(s, idx + 1, cfgStack, r.metas) :
                   r \in {readFieldsDepthFirst(
                              Elem(ValueOf(PtrTo(Field(s, idx).obj))),
                              1, cfgStack, metas)}})
    ELSE IF ~CanSet(Field(s, idx))
    THEN readFieldsDepthFirst(s, idx + 1, cfgStack, metas)
    ELSE readFieldsDepthFirst(s, idx + 1, cfgStack,
            Append(metas, Metadata(s, idx,
                IF Field(s, idx).kind = "struct"
                THEN Lookup(s.obj.type.fields[idx].tag, "env-layout")
                ELSE <<>>)))

\* the loop over the fields of the struct Value s, from field idx on:
\* [panic, stack, metas]
RECURSIVE readFields(_, _, _, _)
readFields(s, idx, cfgStack, metas) ==
    IF idx > NumField(s)
    THEN [panic |-> FALSE, stack |-> cfgStack, metas |-> metas]
    ELSE LET fld    == Field(s, idx)
             fType  == s.obj.type.fields[idx]
             nested == fld.kind = "struct" /\ ~IsTimeType(fType.type)
             layout == IF fld.kind = "struct"
                       THEN Lookup(fType.tag, "env-layout")
                       ELSE <<>>
         IN  IF nested
             THEN \* cfgStack = append(cfgStack, fld.Addr().Interface())
                  IF AddrPanics(fld) \/ InterfacePanics(fld)
                  THEN [panic |-> TRUE, stack |-> cfgStack, metas |-> metas]
                  ELSE readFields(s, idx + 1,
                                  Append(cfgStack, PtrTo(fld.obj)), metas)
             ELSE IF ~CanSet(fld)
             THEN readFields(s, idx + 1, cfgStack, metas)
             ELSE readFields(s, idx + 1, cfgStack,
                             Append(metas, Metadata(s, idx, layout)))

\* unwrap, were every level of pointer dereferenced
RECURSIVE unwrapAll(_)
unwrapAll(v) == IF v.kind = "ptr" THEN unwrapAll(Elem(v)) ELSE v

\* unwrap pointer: if s.Kind() == reflect.Ptr { s = s.Elem() }
unwrap(v) == IF v.kind = "ptr" THEN Elem(v) ELSE v

\* the loop over cfgStack, from entry i on
RECURSIVE readStack(_, _, _)
readStack(cfgStack, i, metas) ==
    IF i > Len(cfgStack)
    THEN [panic |-> FALSE, err |-> NoErr, metas |-> metas]
    ELSE The({IF s.kind # "struct"
              THEN [panic |-> FALSE, err |-> Err("wrong type", <<s.kind>>),
                    metas |-> <<>>]
              ELSE The({IF r.panic
                        THEN [panic |-> TRUE, err |-> NoErr, metas |-> <<>>]
                        ELSE readStack(r.stack, i + 1, r.metas) :
                        r \in {readFields(s, 1, cfgStack, metas)}}) :
              s \in {unwrap(ValueOf(cfgStack[i]))}})

readStructMetadata(cfgRoot) == readStack(<<cfgRoot>>, 1, <<>>)

----------------------------------------------------------------------------
(* The configuration object: the value at a path, and the object with the  *)
(* value at a path replaced.                                               *)

RECURSIVE ValueAt(_, _)
ValueAt(v, path) ==
    IF path = <<>> THEN v ELSE ValueAt(v[Head(path)], Tail(path))

RECURSIVE SetAt(_, _, _)
SetAt(v, path, x) ==
    IF path = <<>> THEN x
    ELSE [v EXCEPT ![Head(path)] = SetAt(v[Head(path)], Tail(path), x)]

\* isFieldValueZero determines if fieldValue empty or not
isFieldValueZero(meta, obj) ==
    isZero(meta.fieldValue.type, ValueAt(obj, meta.fieldValue.path))

----------------------------------------------------------------------------
(* readEnvVars                                                             *)

\* os.LookupEnv: a sequence of length 0 (absent) or 1
LookupEnv(env, name) == IF name \in DOMAIN env THEN <<env[name]>> ELSE <<>>

\* firstPresent, were a present but empty variable passed over
RECURSIVE firstNonEmpty(_, _, _)
firstNonEmpty(env, prefix, names) ==
    IF names = <<>> THEN <<>>
    ELSE IF LookupEnv(env, prefix \o Head(names)) \notin {<<>>, <<<<>>>>}
    THEN LookupEnv(env, prefix \o Head(names))
    ELSE firstNonEmpty(env, prefix, Tail(names))

\* the scan of the candidate names: the first one present, with the prefix
\* prepended, gives rawValue (nil when none is present)
RECURSIVE firstPresent(_, _, _)
firstPresent(env, prefix, names) ==
    IF names = <<>> THEN <<>>
    ELSE IF LookupEnv(env, prefix \o Head(names)) # <<>>
    THEN LookupEnv(env, prefix \o Head(names))
    ELSE firstPresent(env, prefix, Tail(names))

\* requiredMissing, were the zero test inverted
requiredMissingNonZero(meta, found, zero) ==
    found = <<>> /\ meta.required /\ ~zero

\* requiredMissing, were a declared default to count as a value
requiredMissingNoDefault(meta, found, zero) ==
    found = <<>> /\ meta.required /\ zero /\ meta.defValue = <<>>

\* the guard of the required-field error:
\*   rawValue == nil && meta.required && meta.isFieldValueZero()
requiredMissing(meta, found, zero) == found = <<>> /\ meta.required /\ zero

\* rawValue once the default had its chance:
\*   if rawValue == nil && meta.isFieldValueZero() { rawValue = meta.defValue }
withDefault(meta, found, zero) ==
    IF found = <<>> /\ zero THEN meta.defValue ELSE found

\* what the pass does with descriptor i once rawValue is settled: parse it
\* into the field and go on, or stop at the error
RECURSIVE resolve(_, _, _, _, _, _)

\* resolveField, were the pass to go on after a failing descriptor and
\* return the first error at its end
resolveFieldKeepGoing(metaInfo, i, obj, env, prefix, seen, meta, found, zero) ==
    IF requiredMissing(meta, found, zero)
    THEN [resolve(metaInfo, i + 1, obj, env, prefix, Append(seen, i))
              EXCEPT !.err = Err("required", meta.fieldName)]
    ELSE IF withDefault(meta, found, zero) = <<>>
    THEN resolve(metaInfo, i + 1, obj, env, prefix, Append(seen, i))
    ELSE The({IF r.err # NoErr
              THEN [resolve(metaInfo, i + 1, obj, env, prefix,
                            Append(seen, i)) EXCEPT !.err = r.err]
              ELSE resolve(metaInfo, i + 1,
                           SetAt(obj, meta.fieldValue.path, r.val),
                           env, prefix, Append(seen, i)) :
              r \in {parseValue(meta.fieldValue.type,
                                ValueAt(obj, meta.fieldValue.path),
                                withDefault(meta, found, zero)[1],
                                meta.separator, meta.layout)}})

resolveField(metaInfo, i, obj, env, prefix, seen, meta, found, zero) ==
    IF requiredMissing(meta, found, zero)
    THEN [err |-> Err("required", meta.fieldName), obj |-> obj,
          seen |-> Append(seen, i)]
    ELSE IF withDefault(meta, found, zero) = <<>>
    THEN resolve(metaInfo, i + 1, obj, env, prefix, Append(seen, i))
    ELSE The({IF r.err # NoErr
              THEN [err |-> r.err, obj |-> obj, seen |-> Append(seen, i)]
              ELSE resolve(metaInfo, i + 1,
                           SetAt(obj, meta.fieldValue.path, r.val),
                           env, prefix, Append(seen, i)) :
              r \in {parseValue(meta.fieldValue.type,
                                ValueAt(obj, meta.fieldValue.path),
                                withDefault(meta, found, zero)[1],
                                meta.separator, meta.layout)}})

\* the loop over metaInfo from descriptor i on: [err, obj, seen], obj the
\* configuration object after the loop, seen the descriptors looked up
resolve(metaInfo, i, obj, env, prefix, seen) ==
    IF i > Len(metaInfo) THEN [err |-> NoErr, obj |-> obj, seen |-> seen]
    ELSE The({resolveField(metaInfo, i, obj, env, prefix, seen, meta,
                           firstPresent(env, prefix, meta.env),
                           isFieldValueZero(meta, obj)) :
              meta \in {metaInfo[i]}})

\* readEnvVars(cfg): [panic, err, obj, metas, seen]
readEnvVars(cfgRoot, obj, env, prefix) ==
    The({IF m.panic \/ m.err # NoErr
         THEN [panic |-> m.panic, err |-> m.err, obj |-> obj,
               metas |-> <<>>, seen |-> <<>>]
         ELSE The({[panic |-> FALSE, err |-> r.err, obj |-> r.obj,
                    metas |-> m.metas, seen |-> r.seen] :
                   r \in {resolve(m.metas, 1, obj, env, prefix, <<>>)}}) :
         m \in {readStructMetadata(cfgRoot)}})

----------------------------------------------------------------------------
(* The inputs: names, raw values, schemas, initial field states            *)

\* the most variables the environment holds
MaxEnvVars == 2

\* the most resolution passes run over one configuration object
MaxPasses == 2

EnvNames == {<<"A">>, <<"B">>, <<"P", "_", "A">>}

RawValues == {<<>>, <<"0">>, <<"1">>, <<"a">>}

\* the arguments given to WithEnvPrefix
Prefixes == {<<>>, <<"P">>, <<"P", "_">>}

Tag1(k, v) == k :> v

Tag2(k1, v1, k2, v2) == (k1 :> v1) @@ (k2 :> v2)

Tag3(k1, v1, k2, v2, k3, v3) == (k1 :> v1) @@ (k2 :> v2) @@ (k3 :> v3)

NoTag == <<>>

Fld(name, T, tag) ==
    [name |-> name, exported |-> TRUE, type |-> T, tag |-> tag]

Unexported(name, T, tag) ==
    [name |-> name, exported |-> FALSE, type |-> T, tag |-> tag]

\* Host string `env:"A,B"`
FHost == Fld(<<"H", "o", "s", "t">>, TString, Tag1("env", <<"A", ",", "B">>))

\* Port int8 `env:"B" env-default:"1"`
FPort ==
    Fld(<<"P", "o", "r", "t">>, TInt8,
        Tag2("env", <<"B">>, "env-default", <<"1">>))

\* Name string `env:"A" env-required:"true"`
FName ==
    Fld(<<"N", "a", "m", "e">>, TString,
        Tag2("env", <<"A">>, "env-required", <<"t", "r", "u", "e">>))

\* Flag bool `env-default:"a"`
FFlag == Fld(<<"F", "l", "a", "g">>, TBool, Tag1("env-default", <<"a">>))

\* Need int8 `env:"B" env-required:"true" env-default:"1"`
FNeed ==
    Fld(<<"N", "e", "e", "d">>, TInt8,
        Tag3("env", <<"B">>, "env-required", <<"t", "r", "u", "e">>,
             "env-default", <<"1">>))

\* List []int8 `env:"A"`
FList == Fld(<<"L", "i", "s", "t">>, TSlice(TInt8), Tag1("env", <<"A">>))

\* Note string
FNote == Fld(<<"N", "o", "t", "e">>, TString, NoTag)

\* Title MyField `env:"A" env-default:"a"`
FTitle ==
    Fld(<<"T", "i", "t", "l", "e">>, TMyField,
        Tag2("env", <<"A">>, "env-default", <<"a">>))

\* Svc struct { Name ...; Port ... }
FSvc == Fld(<<"S", "v", "c">>, TStruct(<<FName, FPort>>), NoTag)

FieldDecls ==
    {FHost, FPort, FName, FFlag, FNeed, FList, FNote, FSvc, FTitle}

\* the schemas: every struct of one or two of the declared fields
Schemas ==
    {TStruct(<<f>>) : f \in FieldDecls}
        \cup {TStruct(<<p[1], p[2]>>) :
                 p \in {q \in FieldDecls \X FieldDecls : q[1] # q[2]}}

\* a non-zero value of a type
NonZero(T) ==
    CASE T.kind = "string" -> <<"z">>
      [] T.kind = "bool"   -> TRUE
      [] T.kind \in IntKinds \cup UintKinds -> 7
      [] T.kind = "slice"  -> MakeSlice(<<Zero(T.elem)>>)
      [] T.kind = "map"    -> MakeMap(Zero(T.key) :> Zero(T.elem))
      [] T.kind = "struct" /\ IsTimeType(T) -> [wall |-> 0, ext |-> 5, loc |-> "nil"]

\* the values a field of type T may hold when an operation starts: the zero
\* value and a non-zero one per leaf, and their products for a struct
RECURSIVE Values(_)
RECURSIVE FieldValues(_, _)
FieldValues(fields, i) ==
    IF i > Len(fields) THEN {<<>>}
    ELSE {<<v>> \o rest : v \in Values(fields[i].type),
                          rest \in FieldValues(fields, i + 1)}

Values(T) ==
    IF T.kind = "struct" /\ ~IsTimeType(T) THEN FieldValues(T.fields, 1)
    ELSE IF T.kind = "ptr" THEN {NilPtr}
    ELSE {Zero(T), NonZero(T)}

----------------------------------------------------------------------------
(* The Configurator as NewConfiguratorFor("yaml") makes it with ENV unset   *)

defaultPaths ==
    <<<<".", ".", "/", "c", "o", "n", "f", "i", "g">>,
      <<".">>,
      <<".", "/", "c", "o", "n", "f", "i", "g">>>>

defaultFileType == <<"y", "a", "m", "l">>

defaultFileNamePrefix == <<"c", "o", "n", "f", "i", "g">>

\* c.fileNamePrefix: defaultFileNamePrefix + "-" + env, env "dev" when the
\* variable ENV is empty
fileNamePrefix == defaultFileNamePrefix \o <<"-">> \o <<"d", "e", "v">>

\* FileName returns the configuration filename.
FileName == fileNamePrefix \o <<".">> \o defaultFileType

\* the file Load asks LoadFromFile to read for the search path p
PathOf(p) == p \o <<"/">> \o FileName

----------------------------------------------------------------------------
(* The state machine of the resolution pass                                *)

NoOp ==
    [op |-> "none", panic |-> FALSE, err |-> NoErr, pre |-> <<>>,
     metas |-> <<>>, seen |-> <<>>, n |-> 0]

Init ==
    /\ environ = <<>>
    /\ envPrefix = <<>>
    /\ schema \in Schemas
    /\ cfg \in Values(schema)
    /\ files = <<>>
    /\ paths = defaultPaths
    /\ last = NoOp
    /\ probe = <<>>

\* os.Setenv, by the process or its parent, before the Configurator is used
Setenv(name, value) ==
    /\ last.op = "none"
    /\ name \in DOMAIN environ \/ Cardinality(DOMAIN environ) < MaxEnvVars
    /\ environ' = (name :> value) @@ environ
    /\ UNCHANGED <<envPrefix, schema, cfg, files, paths, last, probe>>

\* WithEnvPrefix configure the env vars prefix.
WithEnvPrefix(prefix) ==
    /\ last.op = "none"
    /\ envPrefix' = IF ~HasSuffix(prefix, <<"_">>)
                    THEN prefix \o <<"_">>
                    ELSE prefix
    /\ UNCHANGED <<environ, schema, cfg, files, paths, last, probe>>

\* c.readEnvVars(cfg), cfg a pointer to the configuration object
ReadEnvVars ==
    /\ last.n < MaxPasses
    /\ \E r \in {readEnvVars(PtrTo(StructAt(schema, <<>>)), cfg,
                            environ, envPrefix)} :
           /\ cfg' = r.obj
           /\ last' = [op |-> "readEnvVars", panic |-> r.panic, err |-> r.err,
                       pre |-> cfg, metas |-> r.metas, seen |-> r.seen,
                       n |-> last.n + 1]
    /\ UNCHANGED <<environ, envPrefix, schema, files, paths, probe>>

Next ==
    \/ \E name \in EnvNames, value \in RawValues : Setenv(name, value)
    \/ \E prefix \in Prefixes : WithEnvPrefix(prefix)
    \/ ReadEnvVars

Spec == Init /\ [][Next]_vars

----------------------------------------------------------------------------
(* The resolution pass: what the claims speak of                           *)

\* the last operation was a resolution pass that ran to its return
Passed == last.op = "readEnvVars" /\ ~last.panic

Succeeded == Passed /\ last.err = NoErr

Descriptors == 1..Len(last.metas)

SlotType(i) == last.metas[i].fieldValue.type

\* the slot of descriptor i before the pass and after it
SlotBefore(i) == ValueAt(last.pre, last.metas[i].fieldValue.path)

SlotAfter(i) == ValueAt(cfg, last.metas[i].fieldValue.path)

\* the candidate names of descriptor i that the environment holds, by position
PresentAt(i) ==
    {j \in 1..Len(last.metas[i].env) :
        (envPrefix \o last.metas[i].env[j]) \in DOMAIN environ}

FirstAt(i) == CHOOSE j \in PresentAt(i) : \A k \in PresentAt(i) : j <= k

\* the raw value of the first present candidate of descriptor i
EnvRaw(i) == environ[envPrefix \o last.metas[i].env[FirstAt(i)]]

\* the coercion of raw into the slot of descriptor i
Coercion(i, raw) ==
    parseValue(SlotType(i), SlotBefore(i), raw,
               last.metas[i].separator, last.metas[i].layout)

\* the value the contract gives the slot of descriptor i
Resolved(i) ==
    IF PresentAt(i) # {} THEN Coercion(i, EnvRaw(i)).val
    ELSE IF last.metas[i].defValue # <<>> /\ isZero(SlotType(i), SlotBefore(i))
    THEN Coercion(i, last.metas[i].defValue[1]).val
    ELSE SlotBefore(i)

\* descriptor i is required, none of its names is present, its slot is zero
RequiredUnset(i) ==
    /\ last.metas[i].required
    /\ PresentAt(i) = {}
    /\ isZero(SlotType(i), SlotBefore(i))

Processed(i) == \E k \in 1..Len(last.seen) : last.seen[k] = i

RequiredError(i) == Err("required", last.metas[i].fieldName)

\* C1: after a successful pass every field holds the coerced value of its
\* first present candidate name (prefix prepended), else the coerced default
\* when one is declared and the slot was zero, else its value before the pass.
C1_ResolvedValues ==
    Succeeded => \A i \in Descriptors : SlotAfter(i) = Resolved(i)

\* C1 witness: the first candidate is present and empty, the second present
\* and not empty, the slot was non-zero, and the slot ends empty.
C1_Witness ==
    /\ Succeeded
    /\ \E i \in Descriptors :
        /\ {1, 2} \subseteq PresentAt(i)
        /\ environ[envPrefix \o last.metas[i].env[1]] = <<>>
        /\ environ[envPrefix \o last.metas[i].env[2]] # <<>>
        /\ ~isZero(SlotType(i), SlotBefore(i))
        /\ SlotAfter(i) = <<>>

\* C3: a required descriptor with no candidate present and a zero slot makes
\* the pass fail: the pass never succeeds, and once the descriptor is
\* processed the error is the required-field error naming its field.
C3_RequiredMissingFails ==
    Passed =>
        \A i \in Descriptors :
            RequiredUnset(i) =>
                /\ last.err # NoErr
                /\ Processed(i) => last.err = RequiredError(i)

\* C3 witness: a pass stopped at a required, unset field.
C3_Witness ==
    /\ Passed
    /\ \E i \in Descriptors :
        RequiredUnset(i) /\ Processed(i) /\ last.err = RequiredError(i)

\* C4 as claimed: a required, unset field fails the pass if and only if no
\* default is declared; a declared default is coerced into the slot.
C4_Claimed ==
    Passed =>
        \A i \in Descriptors :
            RequiredUnset(i) /\ Processed(i) =>
                /\ last.err = RequiredError(i) <=> last.metas[i].defValue = <<>>
                /\ last.metas[i].defValue # <<>> => SlotAfter(i) = Resolved(i)

\* C4 amended: a required, unset field fails the pass with the required-field
\* error whether or not a default is declared; the default is not coerced
\* into the slot, which stays zero.
C4_RequiredBeatsDefault ==
    Passed =>
        \A i \in Descriptors :
            RequiredUnset(i) /\ Processed(i) =>
                /\ last.err = RequiredError(i)
                /\ SlotAfter(i) = SlotBefore(i)
                /\ isZero(SlotType(i), SlotAfter(i))

\* C4 witness: the pass failed on a required, unset field that declares a
\* default.
C4_Witness ==
    /\ Passed
    /\ \E i \in Descriptors :
        /\ RequiredUnset(i) /\ Processed(i)
        /\ last.metas[i].defValue # <<>>
        /\ last.err = RequiredError(i)

\* C5 as claimed: after a successful pass every required field is non-zero.
C5_Claimed ==
    Succeeded =>
        \A i \in Descriptors :
            last.metas[i].required => ~isZero(SlotType(i), SlotAfter(i))

\* C5 amended: after a successful pass every required field none of whose
\* candidate names is present is non-zero (it keeps its value); a required
\* field with a present candidate holds that candidate's coerced value, zero
\* or not.
C5_RequiredNonZeroUnlessPresent ==
    Succeeded =>
        \A i \in Descriptors :
            last.metas[i].required =>
                IF PresentAt(i) = {}
                THEN /\ ~isZero(SlotType(i), SlotAfter(i))
                     /\ SlotAfter(i) = SlotBefore(i)
                ELSE SlotAfter(i) = Coercion(i, EnvRaw(i)).val

\* C5 witness: a successful pass over a required field without a present
\* candidate.
C5_Witness ==
    /\ Succeeded
    /\ \E i \in Descriptors :
        /\ last.metas[i].required
        /\ PresentAt(i) = {}
        /\ ~isZero(SlotType(i), SlotAfter(i))

\* the error descriptor i produces on its own: the required-field error, or
\* the error of coercing its raw value
OwnError(i) ==
    IF RequiredUnset(i) THEN RequiredError(i)
    ELSE IF PresentAt(i) # {} THEN Coercion(i, EnvRaw(i)).err
    ELSE IF last.metas[i].defValue # <<>> /\ isZero(SlotType(i), SlotBefore(i))
    THEN Coercion(i, last.metas[i].defValue[1]).err
    ELSE NoErr

\* C6: the pass processes the descriptors in sequence order and stops at the
\* first failing one: it returns that descriptor's error, that descriptor's
\* slot and all later slots are as before the pass, no later descriptor is
\* looked up, and the earlier slots keep the values written.
C6_StopsAtFirstError ==
    Passed =>
        LET k == Len(last.seen)
        IN  /\ last.seen = [j \in 1..k |-> j]
            /\ last.err = NoErr => k = Len(last.metas)
            /\ last.err # NoErr =>
                /\ k \in Descriptors
                /\ last.err = OwnError(k)
                /\ \A j \in 1..(k - 1) :
                    OwnError(j) = NoErr /\ SlotAfter(j) = Resolved(j)
                /\ \A j \in k..Len(last.metas) : SlotAfter(j) = SlotBefore(j)

\* C6 witness: the pass failed at a descriptor that is neither the first nor
\* the last, after writing an earlier slot, and a later descriptor whose
\* candidate is present was left alone.
C6_Witness ==
    /\ Passed
    /\ last.err # NoErr
    /\ LET k == Len(last.seen)
       IN  /\ 1 < k /\ k < Len(last.metas)
           /\ \E j \in 1..(k - 1) : SlotAfter(j) # SlotBefore(j)
           /\ \E j \in (k + 1)..Len(last.metas) :
                PresentAt(j) # {} /\ Resolved(j) # SlotBefore(j)

\* a pass that follows a pass, over the same object with the environment
\* and the prefix of the first
SecondPass == last.op = "readEnvVars" /\ last'.n = last.n + 1

\* C13: the resolution pass is idempotent. A pass that follows a successful
\* pass over the same object, with the same environment and prefix, returns
\* success as well and leaves every field with the value the first gave it.
C13_Idempotent ==
    [][Succeeded /\ SecondPass =>
          /\ ~last'.panic
          /\ last'.err = NoErr
          /\ cfg' = cfg]_vars

\* C13 witness: a second successful pass has run over an object in which
\* the first had bound one field from a present variable and given another,
\* with no variable present, its default; both hold those values still.
C13_Witness ==
    /\ Succeeded
    /\ last.n = 2
    /\ cfg = last.pre
    /\ \E i \in Descriptors :
        /\ PresentAt(i) # {}
        /\ SlotAfter(i) = Coercion(i, EnvRaw(i)).val
        /\ ~isZero(SlotType(i), SlotAfter(i))
    /\ \E i \in Descriptors :
        /\ PresentAt(i) = {}
        /\ last.metas[i].defValue # <<>>
        /\ SlotAfter(i) =
               parseValue(SlotType(i), Zero(SlotType(i)),
                          last.metas[i].defValue[1], last.metas[i].separator,
                          last.metas[i].layout).val
        /\ ~isZero(SlotType(i), SlotAfter(i))

----------------------------------------------------------------------------
(* The schema walker called on its own: the roots and the shapes           *)

\* the most fields, nested ones counted, of a generated struct
MaxNodes == 3

\* the fields a generated struct is made of, before they are named
ShapeLeaves ==
    {Fld(<<>>, TString, Tag1("env", <<"A">>)),
     Unexported(<<>>, TString, NoTag),
     Fld(<<>>, TTime, Tag1("env-layout", LayoutYear)),
     Unexported(<<>>, TTime, NoTag)}

\* the field sequences of exactly n fields, nested ones counted
RECURSIVE ShapesOfSize(_)
RECURSIVE FieldsOfSize(_)
FieldsOfSize(k) ==
    (IF k = 1 THEN ShapeLeaves ELSE {})
        \cup {Fld(<<>>, TStruct(fs), NoTag) : fs \in ShapesOfSize(k - 1)}
        \cup {Unexported(<<>>, TStruct(fs), NoTag) : fs \in ShapesOfSize(k - 1)}

ShapesOfSize(n) ==
    IF n = 0 THEN {<<>>}
    ELSE UNION {{<<f>> \o rest : f \in FieldsOfSize(k),
                                 rest \in ShapesOfSize(n - k)} : k \in 1..n}

\* Go names: the i-th field is Fi when exported, fi when not
RECURSIVE Named(_)
Named(fields) ==
    [i \in 1..Len(fields) |->
        [name |-> <<IF fields[i].exported THEN "F" ELSE "f", Digits[i + 1]>>,
         exported |-> fields[i].exported,
         type |-> IF fields[i].type.kind = "struct" /\ ~IsTimeType(fields[i].type)
                  THEN TStruct(Named(fields[i].type.fields))
                  ELSE fields[i].type,
         tag |-> fields[i].tag]]

\* struct { A string; N struct { N1, N2 string }; B string }, and a struct
\* nested three deep
ExampleShapes ==
    LET leaf == Fld(<<>>, TString, NoTag)
        nest(fs) == Fld(<<>>, TStruct(fs), NoTag)
    IN  {<<leaf, nest(<<leaf, leaf>>), leaf>>,
         <<nest(<<nest(<<nest(<<leaf>>), leaf>>), leaf>>), leaf>>}

WalkSchemas ==
    UNION {{TStruct(Named(fs)) : fs \in ShapesOfSize(n)} : n \in 0..MaxNodes}
        \cup {TStruct(Named(fs)) : fs \in ExampleShapes}

\* what a caller may hand to the walker as cfgRoot, T the type of the
\* configuration object: a pointer to it, a pointer to that pointer, the
\* object itself (a copy), a nil pointer, a nil interface, and values that
\* are no struct
RootsOf(T) ==
    {PtrTo(StructAt(T, <<>>)), PtrTo(PtrTo(StructAt(T, <<>>))),
     StructAt(T, <<>>), NilPtrTo, Plain("invalid"), Plain("int8"),
     Plain("slice"), Plain("map"), PtrTo(Plain("int8"))}

InitWalk ==
    /\ environ = <<>>
    /\ envPrefix = <<>>
    /\ schema \in WalkSchemas
    /\ cfg = Zero(schema)
    /\ files = <<>>
    /\ paths = defaultPaths
    /\ last = NoOp
    /\ probe \in RootsOf(schema)

\* c.readStructMetadata(cfgRoot)
ReadStructMetadata ==
    /\ last.op = "none"
    /\ \E r \in {readStructMetadata(probe)} :
           last' = [op |-> "readStructMetadata", panic |-> r.panic,
                    err |-> r.err, pre |-> cfg, metas |-> r.metas,
                    seen |-> <<>>, n |-> 1]
    /\ UNCHANGED <<environ, envPrefix, schema, cfg, files, paths, probe>>

NextWalk == ReadStructMetadata

SpecWalk == InitWalk /\ [][NextWalk]_vars

\* the walker returned
Walked == last.op = "readStructMetadata"

\* the root is a pointer to a struct, a pointer to such a pointer
IsRef(root) == root.kind = "ptr" /\ ~root.isNil /\ root.elem.kind = "struct"

IsRefRef(root) == root.kind = "ptr" /\ ~root.isNil /\ IsRef(root.elem)

\* the walk of a pointer to a struct that ran to its return without error
WalkedRef == Walked /\ IsRef(probe) /\ ~last.panic /\ last.err = NoErr

SlotPath(i) == last.metas[i].fieldValue.path

\* the leaf fields the walker is to describe: exported, not a struct or a
\* time.Time, and reached through exported structs only
RECURSIVE Eligible(_, _)
Eligible(T, path) ==
    UNION {LET f == T.fields[i]
           IN  IF ~f.exported THEN {}
               ELSE IF f.type.kind = "struct" /\ ~IsTimeType(f.type)
               THEN Eligible(f.type, Append(path, i))
               ELSE {Append(path, i)} : i \in 1..Len(T.fields)}

Min(a, b) == IF a < b THEN a ELSE b

\* p comes before q in declaration order, depth first
LexLess(p, q) ==
    \E k \in 1..Min(Len(p), Len(q)) :
        p[k] < q[k] /\ \A j \in 1..(k - 1) : p[j] = q[j]

\* p comes before q level by level: the shallower first, and declaration
\* order within one depth
LevelLess(p, q) ==
    Len(p) < Len(q) \/ (Len(p) = Len(q) /\ LexLess(p, q))

\* C7 as claimed: the descriptors come in depth-first declaration order, the
\* descriptors of a nested struct at the position of the nested field.
C7_Claimed ==
    WalkedRef =>
        \A i \in Descriptors : \A j \in Descriptors :
            i < j => LexLess(SlotPath(i), SlotPath(j))

\* C7 amended: the descriptors come level by level: the leaf fields of the
\* root struct in declaration order, then those of the nested structs in
\* the order the nested structs were met, at every depth; each eligible
\* leaf field has its descriptor.
C7_LevelOrder ==
    WalkedRef =>
        /\ \A i \in Descriptors : \A j \in Descriptors :
            i < j => LevelLess(SlotPath(i), SlotPath(j))
        /\ {SlotPath(i) : i \in Descriptors} = Eligible(schema, <<>>)

\* C7 witness: a leaf of a nested struct is described after a leaf that is
\* declared after the nested struct.
C7_Witness ==
    /\ WalkedRef
    /\ \E i \in Descriptors : \E j \in Descriptors :
        i < j /\ LexLess(SlotPath(j), SlotPath(i))

\* the root, every pointer followed, is a struct
RECURSIVE StructBehind(_)
StructBehind(root) ==
    \/ root.kind = "struct"
    \/ root.kind = "ptr" /\ ~root.isNil /\ StructBehind(root.elem)

\* the root, one pointer followed, is a struct
StructAfterOneDeref(root) == root.kind = "struct" \/ IsRef(root)

WrongType == last.err.kind = "wrong type"

\* C8 as claimed: a pointer to a pointer to a struct is accepted like the
\* pointer to the struct, and the walker fails with the wrong-type error
\* exactly when the dereferenced root is no struct.
C8_Claimed ==
    Walked =>
        /\ WrongType <=> ~StructBehind(probe)
        /\ IsRefRef(probe) =>
            /\ last.panic = readStructMetadata(probe.elem).panic
            /\ last.metas = readStructMetadata(probe.elem).metas

\* C8 amended: the walker follows one pointer only: it fails with the
\* wrong-type error, with no descriptors and the object untouched, exactly
\* when the root after that one dereference is no struct, and a pointer to
\* a pointer to a struct is such a root.
C8_OneDereference ==
    Walked =>
        /\ WrongType <=> ~StructAfterOneDeref(probe)
        /\ WrongType => last.metas = <<>> /\ ~last.panic /\ cfg = last.pre
        /\ IsRefRef(probe) => last.err = Err("wrong type", <<"ptr">>)
        /\ IsRef(probe) /\ ~last.panic => last.err = NoErr

\* C8 witness: the walk of a pointer to a pointer to a struct failed.
C8_Witness == Walked /\ IsRefRef(probe) /\ WrongType

\* C9 as claimed: over a pointer to a struct the walk neither fails nor
\* panics, skips every unexported field, leaf or struct, and describes each
\* settable leaf field exactly once.
C9_Claimed ==
    Walked /\ IsRef(probe) =>
        /\ ~last.panic
        /\ last.err = NoErr
        /\ {SlotPath(i) : i \in Descriptors} = Eligible(schema, <<>>)
        /\ Cardinality({SlotPath(i) : i \in Descriptors}) = Len(last.metas)

----------------------------------------------------------------------------
(* parseValue called on its own                                            *)

\* struct { X int8 }: a struct that is not time.Time. The walker never
\* hands such a field to parseValue, which meets it inside slices and maps
TPlain == TStruct(<<Fld(<<"X">>, TInt8, NoTag)>>)

ParseTypes ==
    {TString, TBool, TInt8, TUint8, TMyField, TTime, TPtr(TInt8),
     TSlice(TInt8), TSlice(TString), TSlice(TUint8), TSlice(TBool),
     TSlice(TSlice(TInt8)), TSlice(TPlain), TSlice(TPtr(TInt8)),
     TMap(TString, TInt8), TMap(TString, TString), TMap(TInt8, TString),
     TMap(TString, TPlain), TMap(TPlain, TString),
     TMap(TString, TSlice(TInt8))}

ParseRaws ==
    {<<>>, <<" ">>, <<"1">>, <<"a">>, <<"1", ",", "2">>, <<"1", ",", "a">>,
     <<"1", ",", " ", "2">>, <<" ", "1">>, <<",">>, <<"1", ";", "2">>,
     <<"a", ":", "1">>, <<"a", ":", "1", ",", "b", ":", "2">>,
     <<"a", ":", "1", ",", "a", ":", "2">>, <<"a", ":", "b", ":", "c">>,
     <<"a", ":", "1", ",", "b">>, <<"1", "2", "8">>,
     <<"2", "0", "0", "6">>, <<"0", "0", "0", "1">>,
     <<"t", "r", "u", "e">>}

ParseSeparators == {<<",">>, <<";">>}

ParseLayouts == {<<>>, <<LayoutYear>>}

InitParse ==
    /\ environ = <<>>
    /\ envPrefix = <<>>
    /\ schema \in ParseTypes
    /\ cfg \in Values(schema)
    /\ files = <<>>
    /\ paths = defaultPaths
    /\ last = NoOp
    /\ probe \in [raw : ParseRaws, sep : ParseSeparators, layout : ParseLayouts]

\* c.parseValue(field, value, sep, layout), field the configuration object
ParseValue ==
    /\ last.op = "none"
    /\ \E r \in {parseValue(schema, cfg, probe.raw, probe.sep, probe.layout)} :
           /\ cfg' = r.val
           /\ last' = [op |-> "parseValue", panic |-> FALSE, err |-> r.err,
                       pre |-> cfg, metas |-> <<>>, seen |-> <<>>, n |-> 1]
    /\ UNCHANGED <<environ, envPrefix, schema, files, paths, probe>>

NextParse == ParseValue

SpecParse == InitParse /\ [][NextParse]_vars

Parsed == last.op = "parseValue"

\* a type none of the rules of the coercion matches: no setter, not a
\* string, a boolean, an integer, a slice, a map or time.Time
NoRule(T) ==
    /\ ~T.setter
    /\ T.kind \notin {"string", "bool", "slice", "map"} \cup IntKinds \cup UintKinds
    /\ ~(T.kind = "struct" /\ IsTimeType(T))

NotBlank(raw) == TrimSpace(raw) # <<>>

\* the coercion of raw into a T coerces a value of a type without a rule:
\* T itself, the elements of a slice, the key of a map's first pair, or the
\* value of the first pair of a map with string keys
ReachesNoRule(T, raw, sep) ==
    \/ NoRule(T)
    \/ T.kind = "slice" /\ ~T.setter /\ NoRule(T.elem) /\ NotBlank(raw)
    \/ /\ T.kind = "map" /\ ~T.setter /\ NotBlank(raw)
       /\ Index(Split(raw, sep)[1], <<":">>) # 0
       /\ NoRule(T.key) \/ (T.key = TString /\ NoRule(T.elem))

\* C10 as claimed: parseValue fails with the unsupported-type error whenever
\* it is to coerce a value of a type none of its rules matches, also when
\* that value is the element of a slice or the key or value of a map.
C10_Claimed ==
    Parsed /\ ReachesNoRule(schema, probe.raw, probe.sep) =>
        last.err.kind = "unsupported type"

\* the field is a slice whose elements are not bytes
SliceField == schema.kind = "slice" /\ ~schema.setter /\ schema.elem.kind # "uint8"

\* the tokens of the raw value, untrimmed
Tokens == Split(probe.raw, probe.sep)

\* the coercion of token i into an element of the field
Token(i) ==
    parseValue(schema.elem, Zero(schema.elem), Tokens[i], probe.sep,
               probe.layout)

\* the strings of s joined by sep
RECURSIVE Join(_, _)
Join(s, sep) ==
    IF s = <<>> THEN <<>>
    ELSE IF Len(s) = 1 THEN s[1]
    ELSE s[1] \o sep \o Join(Tail(s), sep)

\* C11: the coercion of a raw value into a slice of non-byte elements. A
\* raw value that is blank once trimmed gives an empty slice of length 0.
\* Any other raw value is split, untrimmed, on the separator: when every
\* token coerces the field becomes the slice of the coerced tokens, as many
\* and in the same order (for a slice of strings, the tokens joined by the
\* separator give back the raw value and no token holds the separator);
\* when a token fails the coercion fails and the field keeps its value.
C11_SliceOfTokens ==
    Parsed /\ SliceField =>
        IF ~NotBlank(probe.raw)
        THEN /\ last.err = NoErr
             /\ cfg = MakeSlice(<<>>)
             /\ Len(cfg.elems) = 0
        ELSE IF \A i \in 1..Len(Tokens) : Token(i).err = NoErr
        THEN /\ last.err = NoErr
             /\ ~cfg.isNil
             /\ Len(cfg.elems) = Len(Tokens)
             /\ \A i \in 1..Len(Tokens) : cfg.elems[i] = Token(i).val
             /\ schema.elem = TString =>
                    /\ Join(cfg.elems, probe.sep) = probe.raw
                    /\ \A i \in 1..Len(cfg.elems) :
                           Index(cfg.elems[i], probe.sep) = 0
        ELSE /\ last.err # NoErr
             /\ cfg = last.pre

\* C11 witness: a raw value of two tokens, the second with a leading blank,
\* coerced into a slice of strings that held another value before.
C11_Witness ==
    /\ Parsed /\ SliceField
    /\ schema.elem = TString
    /\ last.err = NoErr
    /\ last.pre # cfg /\ ~last.pre.isNil
    /\ Len(cfg.elems) = 2
    /\ cfg.elems[2] # TrimSpace(cfg.elems[2])

\* the field is a map
MapField == schema.kind = "map" /\ ~schema.setter

\* pair-token i has a ':'
HasColon(i) == Index(Tokens[i], <<":">>) # 0

\* the key and value substrings of pair-token i: the key holds no ':' and
\* key, ':' and value make up the token
PairOf(i) ==
    CHOOSE kv \in {<<SubSeq(Tokens[i], 1, n - 1),
                     SubSeq(Tokens[i], n + 1, Len(Tokens[i]))>> :
                   n \in 1..Len(Tokens[i])} :
        /\ Index(kv[1], <<":">>) = 0
        /\ kv[1] \o <<":">> \o kv[2] = Tokens[i]

\* the coercions of the key and of the value of pair-token i
KeyOf(i) ==
    parseValue(schema.key, Zero(schema.key), PairOf(i)[1], probe.sep,
               probe.layout)

ElemOf(i) ==
    parseValue(schema.elem, Zero(schema.elem), PairOf(i)[2], probe.sep,
               probe.layout)

\* the error pair-token i ends the coercion with, NoErr when it has none
PairError(i) ==
    IF ~HasColon(i) THEN Err("invalid map item", Tokens[i])
    ELSE IF KeyOf(i).err # NoErr THEN KeyOf(i).err
    ELSE ElemOf(i).err

\* pair-token i is the first one with an error
FirstBadPair(i) ==
    /\ PairError(i) # NoErr
    /\ \A j \in 1..(i - 1) : PairError(j) = NoErr

\* C12 as claimed: a raw value with a pair-token that has no ':' fails the
\* coercion with the invalid-map-item error and leaves the field unchanged.
C12_Claimed ==
    Parsed /\ MapField /\ NotBlank(probe.raw)
           /\ (\E i \in 1..Len(Tokens) : ~HasColon(i)) =>
        /\ last.err.kind = "invalid map item"
        /\ cfg = last.pre

\* C12: the coercion of a raw value into a map. A raw value that is blank
\* once trimmed gives an empty map. Any other raw value is split on the
\* separator into pair-tokens, read in order, each split at its first ':'
\* only. The first pair-token with an error ends the coercion with that
\* error and the field unchanged: the invalid-map-item error naming the
\* token when it has no ':', else the error of its key or of its value;
\* pair-tokens after it are not read, so one without ':' that follows a
\* pair-token that does not coerce is not reported. With no such token the
\* map holds the coerced keys, each with the coerced value of the last
\* pair-token carrying it.
C12_MapOfPairs ==
    Parsed /\ MapField =>
        IF ~NotBlank(probe.raw)
        THEN last.err = NoErr /\ cfg = MakeMap(<<>>)
        ELSE IF \E i \in 1..Len(Tokens) : PairError(i) # NoErr
        THEN /\ cfg = last.pre
             /\ \A i \in 1..Len(Tokens) :
                    FirstBadPair(i) => last.err = PairError(i)
        ELSE /\ last.err = NoErr
             /\ ~cfg.isNil
             /\ DOMAIN cfg.m = {KeyOf(i).val : i \in 1..Len(Tokens)}
             /\ \A i \in 1..Len(Tokens) :
                    (\A j \in (i + 1)..Len(Tokens) : KeyOf(j).val # KeyOf(i).val)
                        => cfg.m[KeyOf(i).val] = ElemOf(i).val

\* C12 witness: a pair-token without ':' follows one whose key does not
\* coerce; the coercion ends with the error of that key and the field,
\* which held a map, is unchanged.
C12_Witness ==
    /\ Parsed /\ MapField
    /\ Len(Tokens) = 2
    /\ HasColon(1) /\ KeyOf(1).err # NoErr
    /\ ~HasColon(2)
    /\ last.err = KeyOf(1).err
    /\ last.err.kind # "invalid map item"
    /\ ~last.pre.isNil /\ cfg = last.pre

----------------------------------------------------------------------------
(* LoadFromFile. A file is [exists, wellFormed, doc]: doc is the set of    *)
(* the leaf fields, by path, that the document gives a value. The Parser   *)
(* (the YAML, JSON or TOML decoder) writes them into the object; on a      *)
(* document it rejects it returns its error after writing what it decoded. *)

NoFile == [exists |-> FALSE, wellFormed |-> FALSE, doc |-> {}]

\* the value the documents give a field of type T
FileValue(T) ==
    CASE T.kind = "string" -> <<"f">>
      [] T.kind = "bool"   -> TRUE
      [] T.kind \in IntKinds \cup UintKinds -> 5
      [] T.kind = "slice"  -> MakeSlice(<<5>>)

\* the leaf fields of a struct type, by path, in declaration order
RECURSIVE Leaves(_, _)
Leaves(T, path) ==
    IF T.kind = "struct" /\ ~IsTimeType(T)
    THEN LET sub == [i \in 1..Len(T.fields) |->
                        Leaves(T.fields[i].type, Append(path, i))]
             cat[i \in 0..Len(sub)] ==
                 IF i = 0 THEN <<>> ELSE cat[i - 1] \o sub[i]
         IN  cat[Len(sub)]
    ELSE <<path>>

RECURSIVE TypeAt(_, _)
TypeAt(T, path) ==
    IF path = <<>> THEN T ELSE TypeAt(T.fields[Head(path)].type, Tail(path))

\* the object once the decoder wrote the leaves of doc, leaf by leaf
RECURSIVE Decode(_, _, _, _)
Decode(T, obj, doc, leaves) ==
    IF leaves = <<>> THEN obj
    ELSE Decode(T,
                IF Head(leaves) \in doc
                THEN SetAt(obj, Head(leaves), FileValue(TypeAt(T, Head(leaves))))
                ELSE obj,
                doc, Tail(leaves))

\* Parser.Parse(r, s): [err, obj]
Parse(file, T, obj) ==
    [err |-> IF file.wellFormed THEN NoErr ELSE Err("decode", <<>>),
     obj |-> Decode(T, obj, file.doc, Leaves(T, <<>>))]

\* loadFromFile, were the resolution pass run before the Parser
loadFromFileEnvFirst(path, fs, T, obj, env, prefix) ==
    IF ~fs[path].exists
    THEN [calls |-> <<"open">>, panic |-> FALSE, err |-> Err("open", path),
          obj |-> obj, metas |-> <<>>, seen |-> <<>>]
    ELSE The({IF r.panic \/ r.err # NoErr
              THEN [calls |-> <<"open", "readEnvVars">>, panic |-> r.panic,
                    err |-> r.err, obj |-> r.obj, metas |-> r.metas,
                    seen |-> r.seen]
              ELSE The({[calls |-> <<"open", "readEnvVars", "parse">>,
                         panic |-> FALSE,
                         err |-> IF p.err # NoErr
                                 THEN Err("config file parsing error", p.err.kind)
                                 ELSE NoErr,
                         obj |-> p.obj, metas |-> r.metas, seen |-> r.seen] :
                        p \in {Parse(fs[path], T, r.obj)}}) :
              r \in {readEnvVars(PtrTo(StructAt(T, <<>>)), obj, env, prefix)}})

\* LoadFromFile reads configuration from the specified file into the cfg
\* structure: [calls, panic, err, obj, metas, seen], calls the steps taken
loadFromFile(path, fs, T, obj, env, prefix) ==
    IF ~fs[path].exists
    THEN [calls |-> <<"open">>, panic |-> FALSE, err |-> Err("open", path),
          obj |-> obj, metas |-> <<>>, seen |-> <<>>]
    ELSE The({IF p.err # NoErr
              THEN [calls |-> <<"open", "parse">>, panic |-> FALSE,
                    err |-> Err("config file parsing error", p.err.kind),
                    obj |-> p.obj, metas |-> <<>>, seen |-> <<>>]
              ELSE The({[calls |-> <<"open", "parse", "readEnvVars">>,
                         panic |-> r.panic, err |-> r.err, obj |-> r.obj,
                         metas |-> r.metas, seen |-> r.seen] :
                        r \in {readEnvVars(PtrTo(StructAt(T, <<>>)), p.obj,
                                           env, prefix)}}) :
              p \in {Parse(fs[path], T, obj)}})

\* the files the Configurator may be pointed at
FilePaths == {PathOf(defaultPaths[1]), PathOf(defaultPaths[2])}

\* Service struct { Group string; Name string `env:"A"`; Version string }
FService ==
    Fld(<<"S", "e", "r", "v", "i", "c", "e">>,
        TStruct(<<Fld(<<"G", "r", "o", "u", "p">>, TString, NoTag),
                  Fld(<<"N", "a", "m", "e">>, TString, Tag1("env", <<"A">>)),
                  Fld(<<"V", "e", "r", "s", "i", "o", "n">>, TString, NoTag)>>),
        NoTag)

LoadSchemas ==
    {TStruct(<<FService>>), TStruct(<<FHost, FPort>>), TStruct(<<FNeed, FList>>)}

\* what a file may hold for a configuration object of type T: nothing (no
\* file), or a document, well formed or not, that gives no leaf, the first
\* leaf or every leaf a value
FileStates(T) ==
    {NoFile}
        \cup [exists : {TRUE}, wellFormed : BOOLEAN,
              doc : {{}, {Leaves(T, <<>>)[1]},
                     {Leaves(T, <<>>)[i] : i \in 1..Len(Leaves(T, <<>>))}}]

InitLoad ==
    /\ environ = <<>>
    /\ envPrefix = <<>>
    /\ schema \in LoadSchemas
    /\ cfg = Zero(schema)
    /\ files \in [FilePaths -> FileStates(schema)]
    /\ paths = defaultPaths
    /\ last = NoOp
    /\ probe = <<>>

\* c.LoadFromFile(path, cfg), cfg a pointer to the configuration object
LoadFromFile(path) ==
    /\ last.n < MaxPasses
    /\ \E r \in {loadFromFile(path, files, schema, cfg, environ, envPrefix)} :
           /\ cfg' = r.obj
           /\ last' = [op |-> "LoadFromFile", panic |-> r.panic, err |-> r.err,
                       pre |-> cfg, metas |-> r.metas, seen |-> r.seen,
                       n |-> last.n + 1, calls |-> r.calls, path |-> path]
    /\ UNCHANGED <<environ, envPrefix, schema, files, paths, probe>>

NextLoad ==
    \/ \E name \in EnvNames, value \in RawValues : Setenv(name, value)
    \/ \E prefix \in Prefixes : WithEnvPrefix(prefix)
    \/ \E path \in FilePaths : LoadFromFile(path)

SpecLoad == InitLoad /\ [][NextLoad]_vars

Loaded == last.op = "LoadFromFile"

\* the object as the Parser leaves it, from the object before the call
AfterParse == Parse(files[last.path], schema, last.pre).obj

\* the slot of descriptor i as the Parser leaves it
SlotParsed(i) == ValueAt(AfterParse, last.metas[i].fieldValue.path)

InDoc(i) == last.metas[i].fieldValue.path \in files[last.path].doc

\* C2: LoadFromFile runs the Parser first and the resolution pass second: a
\* field with a present candidate variable ends with the environment value
\* even when the file set it, a field the file set and that has no present
\* candidate keeps the file value; when the file cannot be opened or
\* parsed, the resolution pass does not run and no field is bound from the
\* environment.
C2_ParseThenEnv ==
    Loaded =>
        /\ ~files[last.path].exists =>
            /\ last.calls = <<"open">>
            /\ last.err.kind = "open"
            /\ cfg = last.pre
        /\ files[last.path].exists /\ ~files[last.path].wellFormed =>
            /\ last.calls = <<"open", "parse">>
            /\ last.err.kind = "config file parsing error"
            /\ cfg = AfterParse
        /\ files[last.path].exists /\ files[last.path].wellFormed =>
            /\ last.calls = <<"open", "parse", "readEnvVars">>
            /\ last.err = NoErr =>
                \A i \in Descriptors :
                    /\ PresentAt(i) # {} =>
                        SlotAfter(i) =
                            parseValue(SlotType(i), SlotParsed(i), EnvRaw(i),
                                       last.metas[i].separator,
                                       last.metas[i].layout).val
                    /\ PresentAt(i) = {} /\ InDoc(i) =>
                        SlotAfter(i) = FileValue(SlotType(i))

\* C2 witness: a successful load where the file set two fields, one with a
\* present candidate, which ends with the environment value and not the
\* file's, and one without, which keeps the file value.
C2_Witness ==
    /\ Loaded
    /\ last.err = NoErr
    /\ \E i \in Descriptors :
        /\ InDoc(i) /\ PresentAt(i) # {}
        /\ SlotAfter(i) # FileValue(SlotType(i))
    /\ \E i \in Descriptors :
        /\ InDoc(i) /\ PresentAt(i) = {}
        /\ SlotAfter(i) = FileValue(SlotType(i))

----------------------------------------------------------------------------
(* Load: the search over c.paths. The result is [panic, err, obj,          *)
(* attempts], attempts the calls of LoadFromFile made, in order, each      *)
(* [path, err, obj] with obj the object as the call left it.               *)

RECURSIVE loadStopAtError(_, _, _, _, _, _, _, _)
\* Load, were the search to end at the first path that fails
loadStopAtError(ps, i, fs, T, obj, env, prefix, attempts) ==
    IF i > Len(ps)
    THEN [panic |-> FALSE, err |-> NoErr, obj |-> obj, attempts |-> attempts]
    ELSE The({[panic |-> r.panic, err |-> r.err, obj |-> r.obj,
               attempts |-> Append(attempts,
                                   [path |-> PathOf(ps[i]), err |-> r.err,
                                    obj |-> r.obj])] :
              r \in {loadFromFile(PathOf(ps[i]), fs, T, obj, env, prefix)}})

RECURSIVE load(_, _, _, _, _, _, _, _)
\* Load reads configuration from default file into the cfg structure: the
\* loop over c.paths from index i, obj the object as the attempts so far
\* left it
load(ps, i, fs, T, obj, env, prefix, attempts) ==
    IF i > Len(ps)
    THEN [panic |-> FALSE,
          err |-> IF attempts = <<>> THEN NoErr
                  ELSE attempts[Len(attempts)].err,
          obj |-> obj, attempts |-> attempts]
    ELSE The({IF r.panic \/ r.err = NoErr
              THEN [panic |-> r.panic, err |-> r.err, obj |-> r.obj,
                    attempts |-> Append(attempts,
                                        [path |-> PathOf(ps[i]),
                                         err |-> r.err, obj |-> r.obj])]
              ELSE load(ps, i + 1, fs, T, r.obj, env, prefix,
                        Append(attempts,
                               [path |-> PathOf(ps[i]), err |-> r.err,
                                obj |-> r.obj])) :
              r \in {loadFromFile(PathOf(ps[i]), fs, T, obj, env, prefix)}})

\* the number of paths WithPath may add
MaxAdded == 1

\* the directories WithPath is given
AddedDirs == {<<"/", "e", "t", "c">>, <<"/", "o", "p", "t">>}

\* the files Load may ask for
SearchFiles ==
    {PathOf(defaultPaths[i]) : i \in 1..Len(defaultPaths)}
        \cup {PathOf(d) : d \in AddedDirs}

SearchSchemas == {TStruct(<<FNeed, FList>>), TStruct(<<FService>>)}

\* what a file may hold: nothing (no file), a document the Parser rejects
\* after its first leaf, a well-formed document with no leaf, or a
\* well-formed document with every leaf
SearchFileStates(T) ==
    {NoFile,
     [exists |-> TRUE, wellFormed |-> FALSE, doc |-> {Leaves(T, <<>>)[1]}],
     [exists |-> TRUE, wellFormed |-> TRUE, doc |-> {}],
     [exists |-> TRUE, wellFormed |-> TRUE,
      doc |-> {Leaves(T, <<>>)[i] : i \in 1..Len(Leaves(T, <<>>))}]}

\* the environments the process starts in
SearchEnvs ==
    {<<>>, <<"A">> :> <<"a">>, <<"A">> :> <<"1">>, <<"B">> :> <<"1">>}

InitSearch ==
    /\ environ \in SearchEnvs
    /\ envPrefix = <<>>
    /\ schema \in SearchSchemas
    /\ cfg = Zero(schema)
    /\ files \in [SearchFiles -> SearchFileStates(schema)]
    /\ paths = defaultPaths
    /\ last = NoOp
    /\ probe = <<>>

\* WithPath adds a path into the serach paths, while the Configurator is
\* set up and before it loads
WithPath(path) ==
    /\ last.op = "none"
    /\ Len(paths) < Len(defaultPaths) + MaxAdded
    /\ paths' = Append(paths, path)
    /\ UNCHANGED <<environ, envPrefix, schema, cfg, files, last, probe>>

\* c.Load(cfg), cfg a pointer to the configuration object
Load ==
    /\ last.n < MaxPasses
    /\ \E r \in {load(paths, 1, files, schema, cfg, environ, envPrefix, <<>>)} :
           /\ cfg' = r.obj
           /\ last' = [op |-> "Load", panic |-> r.panic, err |-> r.err,
                       pre |-> cfg, metas |-> <<>>, seen |-> <<>>,
                       n |-> last.n + 1, attempts |-> r.attempts]
    /\ UNCHANGED <<environ, envPrefix, schema, files, paths, probe>>

NextSearch ==
    \/ \E path \in AddedDirs : WithPath(path)
    \/ Load

SpecSearch == InitSearch /\ [][NextSearch]_vars

Searched == last.op = "Load"

\* the object attempt k of the last Load started from
Before(k) == IF k = 1 THEN last.pre ELSE last.attempts[k - 1].obj

\* LoadFromFile on the file attempt k read, over the object it started from
Attempt(k) ==
    loadFromFile(last.attempts[k].path, files, schema, Before(k), environ,
                 envPrefix)

\* C14: Load tries the search paths in list order, the three default paths
\* first and then the paths WithPath added, in the order added, calling
\* LoadFromFile on the file of each over the object as the attempt before
\* left it (nothing is rolled back). It returns success at the first path
\* whose LoadFromFile succeeds and attempts no later path; a path that fails
\* does not end the search; when every path fails it returns the error of
\* the last path.
C14_SearchInOrder ==
    /\ [](/\ Len(paths) >= Len(defaultPaths)
          /\ SubSeq(paths, 1, Len(defaultPaths)) = defaultPaths
          /\ Searched =>
               /\ ~last.panic
               /\ Len(last.attempts) \in 1..Len(paths)
               /\ \A k \in 1..Len(last.attempts) :
                      /\ last.attempts[k].path = PathOf(paths[k])
                      /\ last.attempts[k].err = Attempt(k).err
                      /\ last.attempts[k].obj = Attempt(k).obj
                      /\ k < Len(last.attempts) => last.attempts[k].err # NoErr
               /\ last.err = last.attempts[Len(last.attempts)].err
               /\ cfg = last.attempts[Len(last.attempts)].obj
               /\ last.err # NoErr => Len(last.attempts) = Len(paths))
    /\ [][paths' # paths =>
              \E path \in AddedDirs : paths' = Append(paths, path)]_vars

\* C14 witness: the first path has no file, the second a file the Parser
\* rejects after it wrote a field, the third fails as well, and the fourth,
\* the path WithPath added, has a document that sets nothing and succeeds;
\* the field the failed attempt wrote holds that value still.
C14_Witness ==
    /\ Searched
    /\ Len(paths) = 4
    /\ Len(last.attempts) = 4
    /\ last.err = NoErr
    /\ last.attempts[1].err.kind = "open"
    /\ last.attempts[2].err.kind = "config file parsing error"
    /\ last.attempts[2].obj # last.pre
    /\ last.attempts[3].err # NoErr
    /\ files[PathOf(paths[4])].doc = {}
    /\ cfg = last.attempts[2].obj
    /\ cfg # Zero(schema)

=============================================================================
